---- MODULE Spec2Model ----
(***************************************************************************)
(* Node manifests of packages/gatsby/src/utils/node-manifest.ts:           *)
(* findPageOwnedByNodeId (the resolver), processNodeManifest (one request) *)
(* and processNodeManifests (the batch over a fastq work queue).           *)
(*                                                                         *)
(* Page paths are the integers 1..MaxPages, named in the insertion order   *)
(* of the pages Map; 0 stands for "no path" (undefined / null).  A string  *)
(* is a sequence of one-character strings.                                 *)
(***************************************************************************)
EXTENDS Integers, Sequences, FiniteSets, TLC

\* ------------------------------------------------------------------ bounds
\* pages of the store, and page paths that tracking can name
MaxPages == 2

\* pending requests of one batch
MaxManifests == 3
\* simultaneous tasks of the work queue: fastq(processNodeManifestTask, 25),
\* scaled down so that a batch can hold more requests than the queue runs
Concurrency == 2
\* batch runs over the same requests
MaxRuns == 2
\* characters of a manifest id whose sanitization is enumerated
MaxIdLen == 2

\* ---------------------------------------------------------------- universe
NodeIds == {"n1", "n2"}
Undefined == "undefined"
NoPath == 0
Paths == 1..MaxPages
PluginCreatorIds == {"creator-fs", "creator-site"}

FoundPageBy ==
  {"ownerNodeId", "filesystem-route-api", "context.id", "queryTracking", "none"}

\* state.nodes, as far as the resolver reads it: the plugin nodes by id
nodes ==
  [id \in PluginCreatorIds |->
     [name |-> IF id = "creator-fs" THEN "gatsby-plugin-page-creator"
                                    ELSE "default-site-plugin"]]

IGatsbyPage(p) ==
  [path : {p},
   ownerNodeId : NodeIds \cup {Undefined},
   context : [id : NodeIds \cup {Undefined}],
   pluginCreatorId : PluginCreatorIds]

RECURSIVE PageStoresOfLen(_)
PageStoresOfLen(k) ==
  IF k = 0 THEN {<<>>}
  ELSE {Append(ps, pg) : ps \in PageStoresOfLen(k - 1), pg \in IGatsbyPage(k)}

\* state.pages: a Map path -> page, in insertion order
PageStores == UNION {PageStoresOfLen(k) : k \in 0..MaxPages}

IsSet(s) == \A i, j \in 1..Len(s) : i # j => s[i] # s[j]

\* a Set of page paths, in insertion order; it may be empty and it may name
\* a path that has no page any more
PathSets == {s \in UNION {[1..k -> Paths] : k \in 0..MaxPages} : IsSet(s)}

\* state.queries.byNode: a Map nodeId -> Set of page paths
ByNodeOn(ids) == UNION {[D -> PathSets] : D \in SUBSET ids}

\* the characters that line 287 replaces on win32
SpecialChars == {":", "/", "*", "?", "\"", "<", ">", "|", "\\"}
Chars == SpecialChars \cup {"a", "-"}
Strings(k) == UNION {[1..l -> Chars] : l \in 0..k}

\* the nodes of the datastore are NodeIds; a request may name another id
RequestNodeIds == NodeIds \cup {"n3"}

INodeManifest(ids, plugins, nodeIds) ==
  [manifestId : ids, pluginName : plugins, node : [id : nodeIds]]

PendingLists(reqs, k) == UNION {[1..l -> reqs] : l \in 0..k}

VARIABLES
  pages,           \* state.pages
  byNode,          \* state.queries.byNode
  usingPagesMap,   \* process.env.NODE_ENV = development
  win32,           \* process.platform = win32
  verboseLogs,     \* gatsby_log_level = verbose or VERBOSE_NODE_MANIFEST = true
  nodeManifests,   \* state.nodeManifests, the pending requests
  nodeId,          \* the argument of findPageOwnedByNodeId
  resolverPc,      \* "ready" before the call, "done" after it
  outcome,         \* what findPageOwnedByNodeId returned
  pc,              \* where processNodeManifests stands
  manifests,       \* the array read at the start of the run
  task,            \* per request of the run: where its task stands, its result
  queue,           \* fastq: the requests waiting for a free slot
  running,         \* fastq: the tasks holding a slot
  totalProcessedManifests,
  totalFailedManifests,
  nodeManifestPagePathMap,
  listOfUniqueErrorIds,
  files,           \* public/__node-manifests: file path -> JSON written
  errors,          \* reporter.error: per request, the ids emitted in this run
  summary,         \* reporter.info: the summary of the run
  returned,        \* what processNodeManifests returned
  runs,            \* batch runs started
  requested,       \* the requests registered before the first run
  firstRunFiles,   \* the files as the first run left them
  firstRunMap      \* the map that the first run returned

storeVars == <<pages, byNode, usingPagesMap, win32, verboseLogs>>
resolverVars == <<nodeId, resolverPc, outcome>>
localVars ==
  <<manifests, task, queue, running, totalProcessedManifests,
    totalFailedManifests, nodeManifestPagePathMap, listOfUniqueErrorIds,
    errors, summary>>
historyVars == <<runs, requested, firstRunFiles, firstRunMap>>
vars ==
  <<storeVars, nodeManifests, resolverVars, pc, localVars, files, returned,
    historyVars>>

\* ---------------------------------------------------------------- resolver
HasPage(path) == path \in DOMAIN pages

\* CandidatePaths with a fault: every page is a candidate in either mode
CandidatePathsAllPages(n) ==
  [i \in 1..Len(pages) |-> pages[i].path]

\* pagePathSetOrMap.values(), each value already turned into its path
CandidatePaths(n) ==
  IF usingPagesMap THEN [i \in 1..Len(pages) |-> pages[i].path]
  ELSE IF n \in DOMAIN byNode THEN byNode[n]
  ELSE <<>>

\* DefaultPagePath with a fault: the last tracked path instead of the first
DefaultPagePathLast(n) ==
  IF n \in DOMAIN byNode /\ Len(byNode[n]) > 0
    THEN byNode[n][Len(byNode[n])] ELSE NoPath

\* byNode?.get(nodeId)?.values()?.next()?.value
DefaultPagePath(n) ==
  IF n \in DOMAIN byNode /\ Len(byNode[n]) > 0 THEN byNode[n][1] ELSE NoPath

PageCreatedByFilesystemPlugin(fullPage) ==
  nodes[fullPage.pluginCreatorId].name = "gatsby-plugin-page-creator"

\* LoopBody with a fault: a filesystem-route match is kept when a later page
\* matches by context.id only
LoopBodyKeepsFs(n, st, path) ==
  LET foundOwnerNodeId == HasPage(path) /\ pages[path].ownerNodeId = n
      foundPageIdInContext == HasPage(path) /\ pages[path].context.id = n
  IN [foundOwnerNodeId |-> foundOwnerNodeId,
      foundPageBy |->
        IF foundOwnerNodeId THEN "ownerNodeId"
        ELSE IF foundPageIdInContext
          THEN IF PageCreatedByFilesystemPlugin(pages[path])
                    \/ st.foundPageBy = "filesystem-route-api"
                 THEN "filesystem-route-api" ELSE "context.id"
        ELSE st.foundPageBy,
      ownerPagePath |->
        IF HasPage(path) /\ (foundOwnerNodeId \/ foundPageIdInContext)
          THEN pages[path].path ELSE st.ownerPagePath]

\* one pass of the for loop of findPageOwnedByNodeId, after its break test
LoopBody(n, st, path) ==
  LET foundOwnerNodeId == HasPage(path) /\ pages[path].ownerNodeId = n
      foundPageIdInContext == HasPage(path) /\ pages[path].context.id = n
  IN [foundOwnerNodeId |-> foundOwnerNodeId,
      foundPageBy |->
        IF foundOwnerNodeId THEN "ownerNodeId"
        ELSE IF foundPageIdInContext
          THEN IF PageCreatedByFilesystemPlugin(pages[path])
                 THEN "filesystem-route-api" ELSE "context.id"
        ELSE st.foundPageBy,
      ownerPagePath |->
        IF HasPage(path) /\ (foundOwnerNodeId \/ foundPageIdInContext)
          THEN pages[path].path ELSE st.ownerPagePath]

\* Scan with a fault: the loop without its break
RECURSIVE ScanNoBreak(_, _, _, _)
ScanNoBreak(n, cands, i, st) ==
  IF i > Len(cands) THEN st
  ELSE ScanNoBreak(n, cands, i + 1, LoopBody(n, st, cands[i]))

\* the for loop over the candidates, left at the first explicit owner
RECURSIVE Scan(_, _, _, _)
Scan(n, cands, i, st) ==
  IF i > Len(cands) \/ st.foundOwnerNodeId THEN st
  ELSE Scan(n, cands, i + 1, LoopBody(n, st, cands[i]))

\* findPageOwnedByNodeId with a fault: the path found by the loop is dropped
findPageOwnedByNodeIdKeepsDefault(n) ==
  LET pagePath == DefaultPagePath(n)
      st0 == [foundOwnerNodeId |-> FALSE,
              foundPageBy |-> IF pagePath # NoPath THEN "queryTracking" ELSE "none",
              ownerPagePath |-> NoPath]
      st == Scan(n, CandidatePaths(n), 1, st0)
  IN [page |-> [path |-> pagePath], foundPageBy |-> st.foundPageBy]

findPageOwnedByNodeId(n) ==
  LET pagePath == DefaultPagePath(n)
      st0 == [foundOwnerNodeId |-> FALSE,
              foundPageBy |-> IF pagePath # NoPath THEN "queryTracking" ELSE "none",
              ownerPagePath |-> NoPath]
      st == Scan(n, CandidatePaths(n), 1, st0)
  IN [page |-> [path |-> IF st.ownerPagePath # NoPath THEN st.ownerPagePath
                         ELSE pagePath],
      foundPageBy |-> st.foundPageBy]

NoOutcome == [page |-> [path |-> NoPath], foundPageBy |-> "none"]

\* processNodeManifests has not been called
InitBatchIdle ==
  /\ pc = "idle"
  /\ manifests = <<>>
  /\ task = <<>>
  /\ queue = <<>>
  /\ running = 0
  /\ totalProcessedManifests = 0
  /\ totalFailedManifests = 0
  /\ nodeManifestPagePathMap = <<>>
  /\ listOfUniqueErrorIds = {}
  /\ files = <<>>
  /\ errors = <<>>
  /\ summary = <<>>
  /\ returned = <<>>
  /\ runs = 0
  /\ firstRunFiles = <<>>
  /\ firstRunMap = <<>>

InitResolver ==
  /\ pages \in PageStores
  /\ usingPagesMap \in BOOLEAN
  /\ nodeId \in NodeIds
  /\ byNode \in ByNodeOn({nodeId})
  /\ resolverPc = "ready"
  /\ outcome = NoOutcome
  /\ win32 = FALSE
  /\ verboseLogs = FALSE
  /\ nodeManifests = <<>>
  /\ requested = <<>>
  /\ InitBatchIdle

Resolve ==
  /\ resolverPc = "ready"
  /\ resolverPc' = "done"
  /\ outcome' = findPageOwnedByNodeId(nodeId)
  /\ UNCHANGED <<storeVars, nodeManifests, nodeId, pc, localVars, files,
                 returned, historyVars>>

NextResolver == Resolve

SpecResolver == InitResolver /\ [][NextResolver]_vars

\* ------------------------------------------------------ manifest processor
getNode(id) == id \in NodeIds

\* foundPageByToLogIds with a fault: queryTracking logged as 11802
foundPageByToLogIdsSwapped ==
  [f \in FoundPageBy |->
     CASE f = "none" -> "11801"
       [] f = "context.id" -> "11802"
       [] f = "queryTracking" -> "11802"
       [] f = "filesystem-route-api" -> "success"
       [] f = "ownerNodeId" -> "success"]

\* lines 153-159
foundPageByToLogIds ==
  [f \in FoundPageBy |->
     CASE f = "none" -> "11801"
       [] f = "context.id" -> "11802"
       [] f = "queryTracking" -> "11803"
       [] f = "filesystem-route-api" -> "success"
       [] f = "ownerNodeId" -> "success"]

\* the log id, and what reporter.error is called with
warnAboutNodeManifestMappingProblems(foundPageBy, verbose) ==
  IF foundPageBy \in {"none", "context.id", "queryTracking"}
    THEN [logId |-> foundPageByToLogIds[foundPageBy],
          emitted |-> IF verbose THEN <<foundPageByToLogIds[foundPageBy]>>
                      ELSE <<>>]
    ELSE [logId |-> "success", emitted |-> <<>>]

\* ReplaceSpecialChars with a fault: the backslash is left in place
ReplaceSpecialCharsButBackslash(s) ==
  [i \in 1..Len(s) |-> IF s[i] \in SpecialChars \ {"\\"} THEN "-" ELSE s[i]]

\* fileNameBase.replace(/:|\/|\*|\?|"|<|>|\||\\/g, `-`)
ReplaceSpecialChars(s) ==
  [i \in 1..Len(s) |-> IF s[i] \in SpecialChars THEN "-" ELSE s[i]]

fileNameBase(manifestId) ==
  IF win32 THEN ReplaceSpecialChars(manifestId) ELSE manifestId

\* what path.join takes for a separator on the platform
Separators == IF win32 THEN {"/", "\\"} ELSE {"/"}

RECURSIVE SplitPath(_, _, _, _)
SplitPath(s, i, cur, acc) ==
  LET closed == IF cur = <<>> THEN acc ELSE Append(acc, cur)
  IN IF i > Len(s) THEN closed
     ELSE IF s[i] \in Separators THEN SplitPath(s, i + 1, <<>>, closed)
     ELSE SplitPath(s, i + 1, Append(cur, s[i]), acc)

\* manifestFilePath with a fault: the directory of the plugin is left out
manifestFilePathNoPluginDir(pluginName, base) ==
  SplitPath(base \o <<".json">>, 1, <<>>, <<>>)

\* path.join(directory, `public`, `__node-manifests`, pluginName,
\* `${fileNameBase}.json`), below <directory>/public/__node-manifests: the
\* segments of the path.  No string of Chars holds a dot, so that no
\* segment is `.` or `..`.
manifestFilePath(pluginName, base) ==
  SplitPath(pluginName \o <<"/">> \o base \o <<".json">>, 1, <<>>, <<>>)

INodeManifestOut(m, out) ==
  [node |-> m.node, page |-> out.page, foundPageBy |-> out.foundPageBy]

\* ------------------------------------------------------ batch orchestrator
QueuedTask == [pc |-> "queued", out |-> NoOutcome, result |-> "pending"]

\* processNodeManifestTask from its call to its first await: getNode, and
\* for a node of the store the whole of findPageOwnedByNodeId
StartedTask(m) ==
  IF getNode(m.node.id)
    THEN [pc |-> "resolved", out |-> findPageOwnedByNodeId(m.node.id),
          result |-> "pending"]
    ELSE [pc |-> "noNode", out |-> NoOutcome, result |-> "null"]

\* lines 222-233: the 11804 of a request whose node is missing
NoNodeErrors(m) ==
  IF ~getNode(m.node.id) /\ verboseLogs THEN <<"11804">> ELSE <<>>

\* NoNodeIds with a fault: 11804 is added in verbose mode too
NoNodeIdsAlways(m) ==
  IF ~getNode(m.node.id) THEN {"11804"} ELSE {}

NoNodeIds(m) ==
  IF ~getNode(m.node.id) /\ ~verboseLogs THEN {"11804"} ELSE {}

\* Min with a fault: the limit of the queue is not applied
MinUncapped(a, b) == a

Min(a, b) == IF a < b THEN a ELSE b

NotReturned == [kind |-> "pending"]

\* processNodeManifests with no pending request
ReturnNull ==
  /\ pc = "idle"
  /\ Len(nodeManifests) = 0
  /\ pc' = "returned"
  /\ returned' = [kind |-> "null"]
  /\ runs' = runs + 1
  /\ firstRunFiles' = IF runs = 0 THEN files ELSE firstRunFiles
  /\ UNCHANGED <<storeVars, nodeManifests, resolverVars, localVars, files,
                 requested, firstRunMap>>

\* processNodeManifests from its call to `await new Promise(...)`: the
\* locals, the queue, the pushes (each starts its task while a slot is
\* free), the drain waiter
StartBatch ==
  /\ pc = "idle"
  /\ Len(nodeManifests) > 0
  /\ LET n == Len(nodeManifests)
         k == Min(n, Concurrency)
     IN /\ manifests' = nodeManifests
        /\ task' = [i \in 1..n |-> IF i <= k THEN StartedTask(nodeManifests[i])
                                   ELSE QueuedTask]
        /\ queue' = [j \in 1..(n - k) |-> k + j]
        /\ running' = k
        /\ listOfUniqueErrorIds' = UNION {NoNodeIds(nodeManifests[i]) : i \in 1..k}
        /\ errors' = [i \in 1..n |-> IF i <= k THEN NoNodeErrors(nodeManifests[i])
                                     ELSE <<>>]
  /\ totalProcessedManifests' = 0
  /\ totalFailedManifests' = 0
  /\ nodeManifestPagePathMap' = <<>>
  /\ summary' = <<>>
  /\ returned' = NotReturned
  /\ pc' = "waiting"
  /\ runs' = runs + 1
  /\ UNCHANGED <<storeVars, nodeManifests, resolverVars, files, requested,
                 firstRunFiles, firstRunMap>>

\* what no step of a task changes
TaskFrame ==
  UNCHANGED <<storeVars, nodeManifests, resolverVars, manifests, summary,
              returned, historyVars>>

\* TaskFailed with a fault: the counter is written from the value read before
\* the await, so that the increment of another task is lost
TaskFailedLostUpdate(i) ==
  /\ task[i].pc = "noNode"
  /\ task' = [task EXCEPT ![i].pc = "counted"]
  /\ totalFailedManifests' = 1
  /\ TaskFrame
  /\ UNCHANGED <<pc, queue, running, totalProcessedManifests,
                 nodeManifestPagePathMap, listOfUniqueErrorIds, files, errors>>

\* TaskFailed with a fault: cb(null, true) is called from the task itself,
\* without setImmediate, so that fastq's release runs inside the task
TaskFailedSyncCb(i) ==
  /\ task[i].pc = "noNode"
  /\ totalFailedManifests' = totalFailedManifests + 1
  /\ IF queue # <<>>
       THEN LET j == Head(queue)
            IN /\ task' = [task EXCEPT ![i].pc = "done",
                                       ![j] = StartedTask(manifests[j])]
               /\ queue' = Tail(queue)
               /\ errors' = [errors EXCEPT ![j] = NoNodeErrors(manifests[j])]
               /\ listOfUniqueErrorIds' =
                    listOfUniqueErrorIds \cup NoNodeIds(manifests[j])
               /\ UNCHANGED <<running, pc>>
       ELSE /\ task' = [task EXCEPT ![i].pc = "done"]
            /\ running' = running - 1
            /\ pc' = IF running = 1 /\ pc = "waiting" THEN "drained" ELSE pc
            /\ UNCHANGED <<queue, errors, listOfUniqueErrorIds>>
  /\ TaskFrame
  /\ UNCHANGED <<totalProcessedManifests, nodeManifestPagePathMap, files>>

\* lines 355-363 after processNodeManifest returned null
TaskFailed(i) ==
  /\ task[i].pc = "noNode"
  /\ task' = [task EXCEPT ![i].pc = "counted"]
  /\ totalFailedManifests' = totalFailedManifests + 1
  /\ TaskFrame
  /\ UNCHANGED <<pc, queue, running, totalProcessedManifests,
                 nodeManifestPagePathMap, listOfUniqueErrorIds, files, errors>>

\* lines 243-301: the diagnostic of the resolution, then fs.ensureDir
TaskWarn(i) ==
  /\ task[i].pc = "resolved"
  /\ LET w == warnAboutNodeManifestMappingProblems(task[i].out.foundPageBy,
                                                   verboseLogs)
     IN /\ errors' = [errors EXCEPT ![i] = @ \o w.emitted]
        /\ listOfUniqueErrorIds' =
             IF ~verboseLogs /\ w.logId # "success"
               THEN listOfUniqueErrorIds \cup {w.logId}
               ELSE listOfUniqueErrorIds
  /\ task' = [task EXCEPT ![i].pc = "ensureDir"]
  /\ TaskFrame
  /\ UNCHANGED <<pc, queue, running, totalProcessedManifests,
                 totalFailedManifests, nodeManifestPagePathMap, files>>

\* fs.ensureDir is done, line 302 calls fs.writeJSON
TaskEnsured(i) ==
  /\ task[i].pc = "ensureDir"
  /\ task' = [task EXCEPT ![i].pc = "writeJSON"]
  /\ TaskFrame
  /\ UNCHANGED <<pc, queue, running, totalProcessedManifests,
                 totalFailedManifests, nodeManifestPagePathMap,
                 listOfUniqueErrorIds, files, errors>>

\* TaskWritten with a fault: a resolution to no page writes no file
TaskWrittenUnlessNone(i) ==
  /\ task[i].pc = "writeJSON"
  /\ LET m == manifests[i]
         base == fileNameBase(m.manifestId)
         path == task[i].out.page.path
     IN /\ files' = IF path # NoPath
                      THEN (manifestFilePath(m.pluginName, base)
                              :> INodeManifestOut(m, task[i].out)) @@ files
                      ELSE files
        /\ nodeManifestPagePathMap' =
             IF path # NoPath THEN (path :> base) @@ nodeManifestPagePathMap
             ELSE nodeManifestPagePathMap
  /\ task' = [task EXCEPT ![i].pc = "counted", ![i].result = "artifact"]
  /\ totalProcessedManifests' = totalProcessedManifests + 1
  /\ TaskFrame
  /\ UNCHANGED <<pc, queue, running, totalFailedManifests,
                 listOfUniqueErrorIds, errors>>

\* TaskWritten with a fault: the map is set whatever the resolved path
TaskWrittenAlwaysMaps(i) ==
  /\ task[i].pc = "writeJSON"
  /\ LET m == manifests[i]
         base == fileNameBase(m.manifestId)
         path == task[i].out.page.path
     IN /\ files' = (manifestFilePath(m.pluginName, base)
                       :> INodeManifestOut(m, task[i].out)) @@ files
        /\ nodeManifestPagePathMap' = (path :> base) @@ nodeManifestPagePathMap
  /\ task' = [task EXCEPT ![i].pc = "counted", ![i].result = "artifact"]
  /\ totalProcessedManifests' = totalProcessedManifests + 1
  /\ TaskFrame
  /\ UNCHANGED <<pc, queue, running, totalFailedManifests,
                 listOfUniqueErrorIds, errors>>

\* TaskWritten with a fault: a file that exists is kept and a second one written
TaskWrittenBeside(i) ==
  /\ task[i].pc = "writeJSON"
  /\ LET m == manifests[i]
         base == fileNameBase(m.manifestId)
         path == task[i].out.page.path
         file == manifestFilePath(m.pluginName, base)
     IN /\ files' = IF file \in DOMAIN files
                      THEN (Append(file, <<"1">>)
                              :> INodeManifestOut(m, task[i].out)) @@ files
                      ELSE (file :> INodeManifestOut(m, task[i].out)) @@ files
        /\ nodeManifestPagePathMap' =
             IF path # NoPath THEN (path :> base) @@ nodeManifestPagePathMap
             ELSE nodeManifestPagePathMap
  /\ task' = [task EXCEPT ![i].pc = "counted", ![i].result = "artifact"]
  /\ totalProcessedManifests' = totalProcessedManifests + 1
  /\ TaskFrame
  /\ UNCHANGED <<pc, queue, running, totalFailedManifests,
                 listOfUniqueErrorIds, errors>>

\* TaskWritten with a fault: the map takes the manifest id as it was given
TaskWrittenMapsRawId(i) ==
  /\ task[i].pc = "writeJSON"
  /\ LET m == manifests[i]
         base == fileNameBase(m.manifestId)
         path == task[i].out.page.path
     IN /\ files' = (manifestFilePath(m.pluginName, base)
                       :> INodeManifestOut(m, task[i].out)) @@ files
        /\ nodeManifestPagePathMap' =
             IF path # NoPath
               THEN (path :> m.manifestId) @@ nodeManifestPagePathMap
             ELSE nodeManifestPagePathMap
  /\ task' = [task EXCEPT ![i].pc = "counted", ![i].result = "artifact"]
  /\ totalProcessedManifests' = totalProcessedManifests + 1
  /\ TaskFrame
  /\ UNCHANGED <<pc, queue, running, totalFailedManifests,
                 listOfUniqueErrorIds, errors>>

\* fs.writeJSON is done: lines 304-314, then lines 355-363 of the task
TaskWritten(i) ==
  /\ task[i].pc = "writeJSON"
  /\ LET m == manifests[i]
         base == fileNameBase(m.manifestId)
         path == task[i].out.page.path
     IN /\ files' = (manifestFilePath(m.pluginName, base)
                       :> INodeManifestOut(m, task[i].out)) @@ files
        /\ nodeManifestPagePathMap' =
             IF path # NoPath THEN (path :> base) @@ nodeManifestPagePathMap
             ELSE nodeManifestPagePathMap
  /\ task' = [task EXCEPT ![i].pc = "counted", ![i].result = "artifact"]
  /\ totalProcessedManifests' = totalProcessedManifests + 1
  /\ TaskFrame
  /\ UNCHANGED <<pc, queue, running, totalFailedManifests,
                 listOfUniqueErrorIds, errors>>

\* TaskDone with a fault: the last release finds no drain waiter
TaskDoneDrainLost(i) ==
  /\ task[i].pc = "counted"
  /\ IF queue # <<>>
       THEN LET j == Head(queue)
            IN /\ task' = [task EXCEPT ![i].pc = "done",
                                       ![j] = StartedTask(manifests[j])]
               /\ queue' = Tail(queue)
               /\ errors' = [errors EXCEPT ![j] = NoNodeErrors(manifests[j])]
               /\ listOfUniqueErrorIds' =
                    listOfUniqueErrorIds \cup NoNodeIds(manifests[j])
               /\ UNCHANGED <<running, pc>>
       ELSE /\ task' = [task EXCEPT ![i].pc = "done"]
            /\ running' = running - 1
            /\ UNCHANGED <<pc, queue, errors, listOfUniqueErrorIds>>
  /\ TaskFrame
  /\ UNCHANGED <<totalProcessedManifests, totalFailedManifests,
                 nodeManifestPagePathMap, files>>

\* TaskDone with a fault: drain is called as soon as no request waits, while
\* other tasks still run
TaskDoneDrainsEarly(i) ==
  /\ task[i].pc = "counted"
  /\ IF queue # <<>>
       THEN LET j == Head(queue)
            IN /\ task' = [task EXCEPT ![i].pc = "done",
                                       ![j] = StartedTask(manifests[j])]
               /\ queue' = Tail(queue)
               /\ errors' = [errors EXCEPT ![j] = NoNodeErrors(manifests[j])]
               /\ listOfUniqueErrorIds' =
                    listOfUniqueErrorIds \cup NoNodeIds(manifests[j])
               /\ UNCHANGED <<running, pc>>
       ELSE /\ task' = [task EXCEPT ![i].pc = "done"]
            /\ running' = running - 1
            /\ pc' = IF pc = "waiting" THEN "drained" ELSE pc
            /\ UNCHANGED <<queue, errors, listOfUniqueErrorIds>>
  /\ TaskFrame
  /\ UNCHANGED <<totalProcessedManifests, totalFailedManifests,
                 nodeManifestPagePathMap, files>>

\* the setImmediate callback: cb(null, true), and fastq's release, which
\* starts the next waiting request in the freed slot or, with none waiting
\* and none running, calls drain
TaskDone(i) ==
  /\ task[i].pc = "counted"
  /\ IF queue # <<>>
       THEN LET j == Head(queue)
            IN /\ task' = [task EXCEPT ![i].pc = "done",
                                       ![j] = StartedTask(manifests[j])]
               /\ queue' = Tail(queue)
               /\ errors' = [errors EXCEPT ![j] = NoNodeErrors(manifests[j])]
               /\ listOfUniqueErrorIds' =
                    listOfUniqueErrorIds \cup NoNodeIds(manifests[j])
               /\ UNCHANGED <<running, pc>>
       ELSE /\ task' = [task EXCEPT ![i].pc = "done"]
            /\ running' = running - 1
            /\ pc' = IF running = 1 /\ pc = "waiting" THEN "drained" ELSE pc
            /\ UNCHANGED <<queue, errors, listOfUniqueErrorIds>>
  /\ TaskFrame
  /\ UNCHANGED <<totalProcessedManifests, totalFailedManifests,
                 nodeManifestPagePathMap, files>>

\* lines 379-403: the two reporter.info calls
Summary ==
  /\ pc = "drained"
  /\ pc' = "summarized"
  /\ summary' = [written |-> totalProcessedManifests,
                 failed |-> totalFailedManifests,
                 warnings |-> IF ~verboseLogs THEN listOfUniqueErrorIds ELSE {}]
  /\ UNCHANGED <<storeVars, nodeManifests, resolverVars, manifests, task,
                 queue, running, totalProcessedManifests, totalFailedManifests,
                 nodeManifestPagePathMap, listOfUniqueErrorIds, errors, files,
                 returned, historyVars>>

\* line 406: store.dispatch(internalActions.deleteNodeManifests())
DeleteNodeManifests ==
  /\ pc = "summarized"
  /\ pc' = "cleared"
  /\ nodeManifests' = <<>>
  /\ UNCHANGED <<storeVars, resolverVars, localVars, files, returned,
                 historyVars>>

\* line 407
ReturnMap ==
  /\ pc = "cleared"
  /\ pc' = "returned"
  /\ returned' = [kind |-> "map", map |-> nodeManifestPagePathMap]
  /\ firstRunFiles' = IF runs = 1 THEN files ELSE firstRunFiles
  /\ firstRunMap' = IF runs = 1 THEN nodeManifestPagePathMap ELSE firstRunMap
  /\ UNCHANGED <<storeVars, nodeManifests, resolverVars, localVars, files,
                 runs, requested>>

\* unstable_createNodeManifest, called again for each request of the first
\* run, between two runs
CreateNodeManifests ==
  /\ pc = "returned"
  /\ runs < MaxRuns
  /\ pc' = "idle"
  /\ nodeManifests' = requested
  /\ UNCHANGED <<storeVars, resolverVars, localVars, files, returned,
                 historyVars>>

\* the store of a batch: page 1 is owned by n1, page 2 has n2 in its context;
\* tracking knows page 2 for the nodes it knows
BatchPages(creator) ==
  << [path |-> 1, ownerNodeId |-> "n1", context |-> [id |-> Undefined],
      pluginCreatorId |-> "creator-site"],
     [path |-> 2, ownerNodeId |-> Undefined, context |-> [id |-> "n2"],
      pluginCreatorId |-> creator] >>

BatchRequests ==
  INodeManifest({<<"a", ":", "b">>, <<"a", "/", "b">>}, {<<"x">>}, RequestNodeIds)

InitResolverOff ==
  /\ nodeId = "n1"
  /\ resolverPc = "off"
  /\ outcome = NoOutcome

Init ==
  /\ \E creator \in PluginCreatorIds : pages = BatchPages(creator)
  /\ byNode \in {b \in ByNodeOn(NodeIds) : \A n \in DOMAIN b : b[n] = <<2>>}
  /\ usingPagesMap \in BOOLEAN
  /\ win32 \in BOOLEAN
  /\ verboseLogs \in BOOLEAN
  /\ nodeManifests \in PendingLists(BatchRequests, MaxManifests)
  /\ requested = nodeManifests
  /\ InitResolverOff
  /\ InitBatchIdle

Next ==
  \/ ReturnNull
  \/ StartBatch
  \/ \E i \in DOMAIN task : TaskFailed(i)
  \/ \E i \in DOMAIN task : TaskWarn(i)
  \/ \E i \in DOMAIN task : TaskEnsured(i)
  \/ \E i \in DOMAIN task : TaskWritten(i)
  \/ \E i \in DOMAIN task : TaskDone(i)
  \/ Summary
  \/ DeleteNodeManifests
  \/ ReturnMap

Spec == Init /\ [][Next]_vars

\* the batch run again over the requests of the first run
NextRerun == Next \/ CreateNodeManifests

SpecRerun == Init /\ [][NextRerun]_vars

\* one request, over every manifest id of up to MaxIdLen characters and the
\* id a:b/c
SanitizeIds == Strings(MaxIdLen) \cup {<<"a", ":", "b", "/", "c">>}

InitSanitize ==
  /\ pages = BatchPages("creator-site")
  /\ byNode = <<>>
  /\ usingPagesMap \in BOOLEAN
  /\ win32 \in BOOLEAN
  /\ verboseLogs = FALSE
  /\ nodeManifests \in
       PendingLists(INodeManifest(SanitizeIds, {<<"x">>}, {"n1", "n3"}), 1)
  /\ requested = nodeManifests
  /\ InitResolverOff
  /\ InitBatchIdle

SpecSanitize == InitSanitize /\ [][Next]_vars

\* one store and one platform, every list of pending requests.  The event
\* loop runs every callback that is ready and, with no filesystem error,
\* fs.ensureDir and fs.writeJSON complete: a step that can be taken is taken
InitLive ==
  /\ pages = BatchPages("creator-site")
  /\ byNode = <<>>
  /\ usingPagesMap = TRUE
  /\ win32 = FALSE
  /\ verboseLogs = FALSE
  /\ nodeManifests \in PendingLists(BatchRequests, MaxManifests)
  /\ requested = nodeManifests
  /\ InitResolverOff
  /\ InitBatchIdle

SpecLive == InitLive /\ [][Next]_vars /\ WF_vars(Next)

\* fs.ensureDir or fs.writeJSON rejects: processNodeManifest rejects, the
\* await of line 348 throws, lines 355-363 are not run and cb is never
\* called; nothing handles the rejection of the task
TaskFsError(i) ==
  /\ task[i].pc \in {"ensureDir", "writeJSON"}
  /\ task' = [task EXCEPT ![i].pc = "rejected"]
  /\ TaskFrame
  /\ UNCHANGED <<pc, queue, running, totalProcessedManifests,
                 totalFailedManifests, nodeManifestPagePathMap,
                 listOfUniqueErrorIds, files, errors>>

\* the batch on a filesystem whose calls can fail
NextFs ==
  \/ Next
  \/ \E i \in DOMAIN task : TaskFsError(i)

SpecFs == InitLive /\ [][NextFs]_vars

\* unstable_createNodeManifest called while a run waits for its tasks: the
\* request is added to state.nodeManifests.  One request per run.
CreateNodeManifest(r) ==
  /\ pc \in {"waiting", "drained", "summarized"}
  /\ Len(nodeManifests) = Len(manifests)
  /\ nodeManifests' = Append(nodeManifests, r)
  /\ UNCHANGED <<storeVars, resolverVars, pc, localVars, files, returned,
                 historyVars>>

\* the batch while plugins go on registering requests
NextMidRun ==
  \/ Next
  \/ \E r \in BatchRequests : CreateNodeManifest(r)

SpecMidRun == InitLive /\ [][NextMidRun]_vars

\* two requests over manifest ids and plugin names with and without path
\* separators and replaced characters
CollideIds ==
  {<<"a", ":", "b">>, <<"a", "/", "b">>, <<"a", "\\", "b">>, <<"a", "-", "b">>,
   <<"a", "/", "/", "b">>, <<"a", "b">>, <<"b">>}
CollidePlugins == {<<"x">>, <<"y">>, <<"x", "/", "a">>}

InitCollide ==
  /\ pages = BatchPages("creator-site")
  /\ byNode = <<>>
  /\ usingPagesMap = TRUE
  /\ win32 \in BOOLEAN
  /\ verboseLogs = FALSE
  /\ nodeManifests \in
       PendingLists(INodeManifest(CollideIds, CollidePlugins, {"n1", "n3"}), 2)
  /\ requested = nodeManifests
  /\ InitResolverOff
  /\ InitBatchIdle

SpecCollide == InitCollide /\ [][Next]_vars

\* ------------------------------------------------- claims on the resolver
Cands == CandidatePaths(nodeId)
OwnerMatch(path) == HasPage(path) /\ pages[path].ownerNodeId = nodeId
ContextMatch(path) == HasPage(path) /\ pages[path].context.id = nodeId
NoOwnerMatch == \A i \in 1..Len(Cands) : ~OwnerMatch(Cands[i])
NoContextMatch == \A i \in 1..Len(Cands) : ~ContextMatch(Cands[i])
Tracked == nodeId \in DOMAIN byNode

\* C1: when a candidate page has ownerNodeId = nodeId, the outcome is
\* foundBy = ownerNodeId with the path of the first such candidate in
\* iteration order, whatever else matches by context.id and whatever the
\* provisional tracked path is.
C1_OwnerWins ==
  resolverPc = "done" =>
    \A i \in 1..Len(Cands) :
      (OwnerMatch(Cands[i]) /\ \A j \in 1..(i - 1) : ~OwnerMatch(Cands[j]))
        => /\ outcome.foundPageBy = "ownerNodeId"
           /\ outcome.page.path = Cands[i]

\* an owner found after a context.id match, with another provisional path
C1_Witness ==
  /\ resolverPc = "done"
  /\ \E i, j \in 1..Len(Cands) :
       /\ i < j
       /\ ContextMatch(Cands[i]) /\ ~OwnerMatch(Cands[i])
       /\ OwnerMatch(Cands[j])
       /\ DefaultPagePath(nodeId) \notin {NoPath, Cands[j]}
       /\ outcome.page.path = Cands[j]
  /\ outcome.foundPageBy = "ownerNodeId"

\* C2 as stated: with no owner match, a context.id match on a page of the
\* filesystem-route creator gives filesystem-route-api, and context.id
\* matches on other pages only give context.id.
C2_AnyFsMatchWins ==
  (resolverPc = "done" /\ NoOwnerMatch) =>
    /\ (\E i \in 1..Len(Cands) :
          ContextMatch(Cands[i]) /\ PageCreatedByFilesystemPlugin(pages[Cands[i]]))
         => outcome.foundPageBy = "filesystem-route-api"
    /\ (/\ ~NoContextMatch
        /\ \A i \in 1..Len(Cands) :
             ContextMatch(Cands[i]) => ~PageCreatedByFilesystemPlugin(pages[Cands[i]]))
         => outcome.foundPageBy = "context.id"

\* C2 amended: with no owner match, foundBy is decided by the last candidate
\* in scan order that matches by context.id: filesystem-route-api when that
\* page was created by the filesystem-route creator, context.id otherwise.
C2_LastContextMatchDecides ==
  (resolverPc = "done" /\ NoOwnerMatch) =>
    \A i \in 1..Len(Cands) :
      (ContextMatch(Cands[i]) /\ \A j \in (i + 1)..Len(Cands) : ~ContextMatch(Cands[j]))
        => outcome.foundPageBy =
             IF PageCreatedByFilesystemPlugin(pages[Cands[i]])
               THEN "filesystem-route-api" ELSE "context.id"

\* a filesystem-route match followed by a context.id match of another creator
C2_Witness ==
  /\ resolverPc = "done"
  /\ NoOwnerMatch
  /\ \E i, j \in 1..Len(Cands) :
       /\ i < j
       /\ ContextMatch(Cands[i]) /\ PageCreatedByFilesystemPlugin(pages[Cands[i]])
       /\ ContextMatch(Cands[j]) /\ ~PageCreatedByFilesystemPlugin(pages[Cands[j]])
  /\ outcome.foundPageBy = "context.id"

\* C3 as stated: a node with an entry in the tracking index and no owner or
\* context.id match resolves to queryTracking and the first tracked path.
C3_TrackedEntryGivesQueryTracking ==
  (resolverPc = "done" /\ Tracked /\ NoOwnerMatch /\ NoContextMatch) =>
    /\ outcome.foundPageBy = "queryTracking"
    /\ outcome.page.path = byNode[nodeId][1]

\* C3 amended: a node whose tracking entry holds at least one path and that
\* no candidate matches by ownerNodeId or context.id resolves to
\* queryTracking and the first tracked path, in both modes; an entry with an
\* empty path set resolves to none / no path.
C3_NonEmptyEntryGivesQueryTracking ==
  (resolverPc = "done" /\ Tracked /\ NoOwnerMatch /\ NoContextMatch) =>
    IF Len(byNode[nodeId]) > 0
      THEN /\ outcome.foundPageBy = "queryTracking"
           /\ outcome.page.path = byNode[nodeId][1]
      ELSE /\ outcome.foundPageBy = "none"
           /\ outcome.page.path = NoPath

\* development mode, pages to scan, two tracked paths, nothing matches
C3_Witness ==
  /\ resolverPc = "done"
  /\ usingPagesMap /\ Len(pages) > 0
  /\ Tracked /\ Len(byNode[nodeId]) > 1
  /\ NoOwnerMatch /\ NoContextMatch
  /\ outcome.foundPageBy = "queryTracking"
  /\ outcome.page.path = byNode[nodeId][1]

\* C4: foundBy is one of the five kinds, the path is there exactly when
\* foundBy is not none, and foundBy describes the page of the path.
C4_OutcomeInvariant ==
  resolverPc = "done" =>
    /\ outcome.foundPageBy \in FoundPageBy
    /\ (outcome.page.path # NoPath) <=> (outcome.foundPageBy # "none")
    /\ outcome.foundPageBy = "ownerNodeId" => OwnerMatch(outcome.page.path)
    /\ outcome.foundPageBy \in {"filesystem-route-api", "context.id"}
         => ContextMatch(outcome.page.path)
    /\ outcome.foundPageBy = "queryTracking"
         => Tracked /\ Len(byNode[nodeId]) > 0
            /\ outcome.page.path = byNode[nodeId][1]

\* a context.id match replaces another provisional tracked path
C4_Witness ==
  /\ resolverPc = "done"
  /\ outcome.foundPageBy = "filesystem-route-api"
  /\ DefaultPagePath(nodeId) \notin {NoPath, outcome.page.path}
  /\ ContextMatch(outcome.page.path)

\* ------------------------------------ claims on the processor and the batch
Tasks == DOMAIN task
NodeExists(i) == getNode(manifests[i].node.id)
Finished(i) == task[i].pc \in {"counted", "done"}
Resolution(i) == findPageOwnedByNodeId(manifests[i].node.id)
Artifact(i) ==
  [node |-> manifests[i].node,
   page |-> [path |-> Resolution(i).page.path],
   foundPageBy |-> Resolution(i).foundPageBy]
ArtifactPath(i) ==
  manifestFilePath(manifests[i].pluginName, fileNameBase(manifests[i].manifestId))
\* a step of the run in which the task of request i moves
Moves(i) == pc = "waiting" /\ i \in Tasks /\ task'[i].pc # task[i].pc
\* the step in which the write of request i completes
Writes(i) ==
  pc = "waiting" /\ i \in Tasks /\ task[i].pc = "writeJSON" /\ task'[i].pc = "counted"

C5_State ==
  \A i \in Tasks :
    (~NodeExists(i) /\ task[i].pc # "queued") =>
      /\ task[i].result = "null"
      /\ task[i].pc \in {"noNode", "counted", "done"}
      /\ IF verboseLogs
           THEN errors[i] = <<"11804">> /\ "11804" \notin listOfUniqueErrorIds
           ELSE errors[i] = <<>> /\ "11804" \in listOfUniqueErrorIds

C5_Step ==
  \A i \in Tasks :
    (~NodeExists(i) /\ Moves(i)) =>
      /\ files' = files
      /\ nodeManifestPagePathMap' = nodeManifestPagePathMap
      /\ totalProcessedManifests' = totalProcessedManifests
      /\ totalFailedManifests' =
           totalFailedManifests + (IF task[i].pc = "noNode" THEN 1 ELSE 0)

\* C5: a request whose node is not in the store returns null, writes no
\* file, leaves the path map alone and records 11804 (in the id set when
\* not verbose, emitted and not added when verbose); it adds exactly one to
\* the failure counter and nothing to the success counter.
C5_MissingNode == [](C5_State) /\ [][C5_Step]_vars

\* verbose run: a request of a missing node is done beside a written one
C5_Witness ==
  /\ verboseLogs
  /\ \E i, j \in Tasks :
       /\ ~NodeExists(i) /\ task[i].pc = "done" /\ errors[i] = <<"11804">>
       /\ NodeExists(j) /\ task[j].pc = "done"
  /\ totalFailedManifests = 1
  /\ files # <<>>

ExpectedLogId(f) ==
  CASE f = "none" -> "11801"
    [] f = "context.id" -> "11802"
    [] f = "queryTracking" -> "11803"
    [] f \in {"filesystem-route-api", "ownerNodeId"} -> "success"

Diagnosed(i) == task[i].pc \in {"ensureDir", "writeJSON", "counted", "done"}

\* C6: for a request whose node exists the diagnostic follows the table;
\* not verbose, a non-success id is added to the id set and nothing is
\* emitted, a success adds nothing; verbose, the diagnostic is emitted
\* exactly once and the id set is left as it was.
C6_DiagnosticTable ==
  /\ \A i \in Tasks :
       NodeExists(i) =>
         LET id == ExpectedLogId(Resolution(i).foundPageBy)
         IN IF ~Diagnosed(i) THEN errors[i] = <<>>
            ELSE IF verboseLogs
              THEN errors[i] = IF id = "success" THEN <<>> ELSE <<id>>
              ELSE errors[i] = <<>> /\ (id # "success" => id \in listOfUniqueErrorIds)
  /\ listOfUniqueErrorIds =
       IF verboseLogs THEN {}
       ELSE ({ExpectedLogId(Resolution(i).foundPageBy) :
                i \in {j \in Tasks : NodeExists(j) /\ Diagnosed(j)}} \ {"success"})
            \cup {"11804" : i \in {j \in Tasks : ~NodeExists(j) /\ task[j].pc # "queued"}}

\* not verbose: one request found by queryTracking, one by ownerNodeId
C6_Witness ==
  /\ ~verboseLogs
  /\ \E i, j \in Tasks :
       /\ NodeExists(i) /\ task[i].pc = "done"
       /\ Resolution(i).foundPageBy = "queryTracking"
       /\ NodeExists(j) /\ task[j].pc = "done"
       /\ Resolution(j).foundPageBy = "filesystem-route-api"
  /\ listOfUniqueErrorIds = {"11803"}

C7_State ==
  \A i \in Tasks :
    (NodeExists(i) /\ Finished(i)) =>
      /\ task[i].result = "artifact"
      /\ ArtifactPath(i) \in DOMAIN files
      /\ \E j \in Tasks :
           /\ NodeExists(j)
           /\ ArtifactPath(j) = ArtifactPath(i)
           /\ files[ArtifactPath(i)] = Artifact(j)
      /\ Artifact(i).foundPageBy = "none" => Artifact(i).page.path = NoPath

C7_Step ==
  \A i \in Tasks :
    (Moves(i) /\ NodeExists(i) /\ task'[i].pc = "counted") =>
      /\ task'[i].result = "artifact"
      /\ DOMAIN files' = DOMAIN files \cup {ArtifactPath(i)}
      /\ files'[ArtifactPath(i)] = Artifact(i)
      /\ \A f \in DOMAIN files : f # ArtifactPath(i) => files'[f] = files[f]

\* C7: every request whose node exists, whatever its resolution, has its
\* artifact {node, page: {path}, foundPageBy} written at
\* <pluginName>/<sanitizedManifestId>.json and returned, with no page path
\* when foundBy is none.
C7_ArtifactWritten == [](C7_State) /\ [][C7_Step]_vars

\* a request that resolved to none is done and the file holds its artifact
C7_Witness ==
  \E i \in Tasks :
    /\ NodeExists(i) /\ task[i].pc = "done"
    /\ Resolution(i).foundPageBy = "none"
    /\ ArtifactPath(i) \in DOMAIN files
    /\ files[ArtifactPath(i)] = Artifact(i)
    /\ files[ArtifactPath(i)].page.path = NoPath

\* C8: the path map gains pagePath -> sanitizedManifestId exactly when a
\* request of an existing node resolved to a page path; a request resolved
\* to none adds no entry, and the call changes no other entry.
C8_PathMapEntry ==
  [][/\ \A i \in Tasks :
          Writes(i) =>
            LET path == Resolution(i).page.path
            IN IF path # NoPath
                 THEN /\ DOMAIN nodeManifestPagePathMap' =
                           DOMAIN nodeManifestPagePathMap \cup {path}
                      /\ nodeManifestPagePathMap'[path] =
                           fileNameBase(manifests[i].manifestId)
                      /\ \A q \in DOMAIN nodeManifestPagePathMap :
                           q # path => nodeManifestPagePathMap'[q] =
                                         nodeManifestPagePathMap[q]
                 ELSE nodeManifestPagePathMap' = nodeManifestPagePathMap
     /\ (pc = "waiting" /\ nodeManifestPagePathMap' # nodeManifestPagePathMap)
          => \E i \in Tasks :
               Writes(i) /\ NodeExists(i) /\ Resolution(i).page.path # NoPath
    ]_vars

\* the map holds the entry of another page when a request resolved to none
\* has been written
C8_Witness ==
  \E i, j \in Tasks :
    /\ task[i].pc = "done" /\ NodeExists(i) /\ Resolution(i).page.path = NoPath
    /\ task[j].pc = "done" /\ NodeExists(j) /\ Resolution(j).page.path # NoPath
    /\ DOMAIN nodeManifestPagePathMap = {Resolution(j).page.path}

\* the id as the claim spells it: on win32 each special character is a
\* hyphen and every other character is kept, elsewhere the id is unchanged
Sanitized(id) ==
  [k \in 1..Len(id) |->
     IF win32 /\ id[k] \in {":", "/", "*", "?", "\"", "<", ">", "|", "\\"}
       THEN "-" ELSE id[k]]

SecondRunReturned == pc = "returned" /\ runs = 2 /\ returned.kind = "map"

\* C10 as stated: the second run over the same requests and an unchanged
\* store leaves the same files with the same contents as the first run.
C10_SameFilesSameContents == SecondRunReturned => files = firstRunFiles

RequestsOf(f) ==
  {i \in 1..Len(requested) :
     /\ getNode(requested[i].node.id)
     /\ manifestFilePath(requested[i].pluginName,
                         fileNameBase(requested[i].manifestId)) = f}

\* C10 amended: the second run leaves the same set of files as the first,
\* every file is the one path of a pending request, and a file has the same
\* contents as after the first run when all the requests written to it carry
\* the same node; a file that requests of different nodes are written to
\* holds the artifact of the write that completed last in each run.
C10_SameFiles ==
  /\ \A f \in DOMAIN files : RequestsOf(f) # {}
  /\ SecondRunReturned =>
       /\ DOMAIN files = DOMAIN firstRunFiles
       /\ \A f \in DOMAIN files :
            (\A i, j \in RequestsOf(f) : requested[i].node = requested[j].node)
              => files[f] = firstRunFiles[f]

\* after the second run, with a file that two requests of one node wrote
C10_Witness ==
  /\ SecondRunReturned
  /\ \E f \in DOMAIN files :
       /\ Cardinality(RequestsOf(f)) > 1
       /\ \A i, j \in RequestsOf(f) : requested[i].node = requested[j].node
       /\ files[f] = firstRunFiles[f]
  /\ Cardinality(DOMAIN files) > 1

\* ---------------------------------------------------- claims on the batch
\* the tasks that were started and whose cb has not been called
InFlight == {i \in Tasks : task[i].pc \notin {"queued", "done"}}

\* C11: at every moment of a batch run at most Concurrency tasks (the limit
\* given to fastq) are in flight, also when the run holds more requests than
\* the limit; the tasks in flight are those that fastq counts as running.
C11_ConcurrencyCap ==
  /\ Cardinality(InFlight) <= Concurrency
  /\ running = Cardinality(InFlight)
  /\ queue # <<>> => running = Concurrency

\* more requests than the limit: a slot was freed and taken by the request
\* that waited, and the limit is reached again
C11_Witness ==
  /\ Len(manifests) > Concurrency
  /\ Cardinality(InFlight) = Concurrency
  /\ \E i \in Tasks : task[i].pc = "done"
  /\ \E i \in Tasks : i > Concurrency /\ task[i].pc = "writeJSON"

Counted(existing) ==
  Cardinality({i \in Tasks : Finished(i) /\ NodeExists(i) = existing})
AtStart(existing) ==
  Cardinality({i \in 1..Len(manifests) : NodeExists(i) = existing})

C12_State ==
  /\ pc # "idle" => manifests = requested
  /\ totalProcessedManifests = Counted(TRUE)
  /\ totalFailedManifests = Counted(FALSE)
  /\ summary # <<>> =>
       /\ \A i \in 1..Len(manifests) : i \in Tasks /\ task[i].pc = "done"
       /\ summary.written = AtStart(TRUE)
       /\ summary.failed = AtStart(FALSE)
       /\ summary.written + summary.failed = Len(manifests)

C12_Step ==
  \A i \in Tasks :
    /\ Finished(i) => i \in DOMAIN task' /\ Finished(i)'
    /\ ~Finished(i) /\ i \in DOMAIN task' /\ Finished(i)' =>
         /\ totalProcessedManifests' + totalFailedManifests'
              = totalProcessedManifests + totalFailedManifests + 1
         /\ \A j \in Tasks \ {i} : Finished(j)' = Finished(j)

\* C12: under every interleaving each request that was pending at the start
\* of the run is counted exactly once: at every moment the success counter
\* is the number of counted requests whose node exists and the failure
\* counter the number of counted requests whose node is missing, a counted
\* request stays counted, and the summary reports the number of requests
\* whose node existed, the number whose node was missing, and together the
\* number of requests at the start.
C12_ExactlyOnce == [](C12_State) /\ [][C12_Step]_vars

\* a summary over more requests than the limit, with both counters used
C12_Witness ==
  /\ summary # <<>>
  /\ Len(manifests) > Concurrency
  /\ summary.written >= 1
  /\ summary.failed >= 2

Drained ==
  /\ queue = <<>>
  /\ running = 0
  /\ \A i \in 1..Len(manifests) : i \in Tasks /\ task[i].pc = "done"

\* C13: with no filesystem error a run over a non-empty pending collection,
\* of fewer requests than the limit, as many, or more, eventually has no
\* waiting and no running task, the wait for the drain is then woken, and
\* processNodeManifests returns nodeManifestPagePathMap.
C13_Terminates ==
  /\ (pc = "idle" /\ Len(nodeManifests) > 0) ~> (pc = "drained" /\ Drained)
  /\ (pc = "waiting") ~> (pc = "drained" /\ Drained)
  /\ (pc = "drained") ~>
       (pc = "returned" /\ Drained
          /\ returned = [kind |-> "map", map |-> nodeManifestPagePathMap])

\* a run of more requests than the limit has returned its map
C13_Witness ==
  /\ pc = "returned"
  /\ returned.kind = "map"
  /\ Len(manifests) > Concurrency
  /\ Drained

\* the tasks that can still take a step
Advancing == {i \in Tasks : task[i].pc \notin {"queued", "done", "rejected"}}

\* C14: a filesystem error in one request never stalls the batch: the task
\* that failed gives its slot back, so that fastq counts only the tasks that
\* still advance, and while the batch waits for the drain some task is
\* still advancing towards it.
C14_FailureNeverStalls ==
  /\ running = Cardinality(Advancing)
  /\ pc = "waiting" => Advancing # {}

\* request k of the pending collection was processed by the run
Processed(k) ==
  /\ k \in Tasks
  /\ manifests[k] = nodeManifests[k]
  /\ task[k].pc = "done"

\* C15: a request that is added to the pending collection during a run is
\* not processed by that run and is still pending after the run has cleared
\* the collection: whatever leaves the pending collection was processed.
C15_AddedMidRunIsKept ==
  [][\A k \in 1..Len(nodeManifests) :
       \/ Processed(k)
       \/ \E l \in 1..Len(nodeManifests') : nodeManifests'[l] = nodeManifests[k]]_vars

C16_State ==
  /\ summary # <<>> => Drained
  /\ ~Drained => nodeManifests = manifests
  /\ pc \in {"cleared", "returned"} /\ Len(manifests) > 0 =>
       summary # <<>> /\ nodeManifests = <<>>
  /\ returned \notin {<<>>, NotReturned, [kind |-> "null"]} =>
       pc = "returned" /\ summary # <<>> /\ nodeManifests = <<>>

C16_Step ==
  /\ summary' # summary =>
       summary = <<>> /\ Drained /\ nodeManifests = manifests
  /\ nodeManifests' # nodeManifests =>
       /\ nodeManifests' = <<>>
       /\ Drained
       /\ summary # <<>>
       /\ returned = NotReturned
  /\ pc # "returned" /\ pc' = "returned" /\ returned'.kind = "map" =>
       nodeManifests = <<>> /\ summary # <<>>

\* C16: at the end of a run over a non-empty pending collection the summary
\* is emitted only when no task of the run waits or is in flight, the pending
\* collection is cleared once, after the summary and never while a task is in
\* flight, and the map is returned only after the clear.
C16_EndOrdering == [](C16_State) /\ [][C16_Step]_vars

\* a run of more requests than the limit has emitted its summary, cleared
\* the pending collection and returned
C16_Witness ==
  /\ pc = "returned"
  /\ returned.kind = "map"
  /\ Len(manifests) > Concurrency
  /\ summary # <<>>
  /\ nodeManifests = <<>>

\* the step in which the task of request i updates its counter
Counts(i) ==
  /\ i \in Tasks
  /\ pc = "waiting"
  /\ task[i].pc \in {"noNode", "writeJSON"}
  /\ task'[i].pc # task[i].pc
\* the step in which cb of request i is called
Completes(i) ==
  /\ i \in Tasks
  /\ pc = "waiting"
  /\ task[i].pc # "done"
  /\ task'[i].pc = "done"
CountersUnchanged ==
  UNCHANGED <<totalProcessedManifests, totalFailedManifests>>

\* C17: the step in which a task updates its counter does not call cb: the
\* task is left counted and not yet done, the queue and the number of running
\* tasks are as before and no waiting request is started.  cb is called in a
\* later step, for a task that has updated its counter, once per task; a
\* waiting request is started only in such a step, by the release of fastq,
\* and in no step that updates a counter.
C17_DeferredCompletion ==
  [][\A i \in Tasks :
       /\ Counts(i) =>
            /\ task'[i].pc = "counted"
            /\ queue' = queue /\ running' = running /\ pc' = pc
            /\ \A j \in Tasks \ {i} : task'[j] = task[j]
       /\ Completes(i) =>
            /\ task[i].pc = "counted"
            /\ CountersUnchanged
            /\ \A j \in Tasks \ {i} : ~Completes(j)
       /\ pc = "waiting" /\ task[i].pc = "done" => task'[i].pc = "done"
       /\ pc = "waiting" /\ task[i].pc = "queued" /\ task'[i].pc # "queued" =>
            /\ \E j \in Tasks \ {i} : Completes(j)
            /\ CountersUnchanged]_vars

\* a request that waited for a slot was started by a release, and has
\* updated its counter while its own cb is still to come
C17_Witness ==
  /\ pc = "waiting"
  /\ \E i, j \in Tasks :
       /\ task[i].pc = "done"
       /\ j > Concurrency
       /\ task[j].pc = "counted"

\* ------------------------------------------ claims on the candidate set
TrackedPaths ==
  IF Tracked THEN {byNode[nodeId][i] : i \in 1..Len(byNode[nodeId])} ELSE {}
OwnerPages == {p \in DOMAIN pages : pages[p].ownerNodeId = nodeId}
ContextPages == {p \in DOMAIN pages : pages[p].context.id = nodeId}

\* C18: in tracked mode the resolver looks only at the pages of the node's
\* tracked path set: the resulting path is one of the tracked paths or none,
\* a match by ownerNodeId or context.id is a match of a tracked page, a page
\* outside the set is never the result, and a node with no tracking entry
\* resolves to none with no path.  In dev mode every page of the store is a
\* candidate: a page that names the node as its owner is found by
\* ownerNodeId, and with no such page a page whose context.id is the node is
\* found, with or without a tracking entry.
C18_CandidateSetByMode ==
  resolverPc = "done" =>
    /\ ~usingPagesMap =>
         /\ outcome.page.path \in TrackedPaths \cup {NoPath}
         /\ outcome.foundPageBy = "ownerNodeId" =>
              outcome.page.path \in OwnerPages \cap TrackedPaths
         /\ outcome.foundPageBy \in {"filesystem-route-api", "context.id"} =>
              outcome.page.path \in ContextPages \cap TrackedPaths
         /\ OwnerPages \cap TrackedPaths = {}
              => outcome.foundPageBy # "ownerNodeId"
         /\ ~Tracked => outcome = NoOutcome
    /\ usingPagesMap =>
         /\ OwnerPages # {} =>
              /\ outcome.foundPageBy = "ownerNodeId"
              /\ outcome.page.path \in OwnerPages
         /\ OwnerPages = {} /\ ContextPages # {} =>
              /\ outcome.foundPageBy \in {"filesystem-route-api", "context.id"}
              /\ outcome.page.path \in ContextPages

\* tracked mode: the node is tracked on one page and owns another, which is
\* not the result
C18_Witness ==
  /\ resolverPc = "done"
  /\ ~usingPagesMap
  /\ Tracked
  /\ TrackedPaths # {}
  /\ OwnerPages \ TrackedPaths # {}
  /\ outcome.page.path \in TrackedPaths \ OwnerPages

\* ------------------------------------------------ claims on the map
\* C19 as stated: for the same pending requests and the same store the map
\* that a run returns does not depend on the order in which its tasks
\* complete: a second run returns the map that the first run returned.
C19_SameMap == SecondRunReturned => returned.map = firstRunMap

\* the requests of the run that resolve to page path p
ResolvingTo(p) ==
  {i \in 1..Len(requested) :
     /\ getNode(requested[i].node.id)
     /\ findPageOwnedByNodeId(requested[i].node.id).page.path = p}
BaseOf(i) == fileNameBase(requested[i].manifestId)

\* C19 amended: the keys of the returned map are the page paths that the
\* requests of the run resolve to, whatever the order of completion; the
\* value of a path is the file name base of one of the requests that resolve
\* to it, and where these requests all have one file name base the value is
\* the same in every run; where they differ, the value is the base of the
\* request whose write completed last.
C19_SameKeys ==
  /\ pc = "returned" /\ returned.kind = "map" =>
       /\ DOMAIN returned.map = {p \in Paths : ResolvingTo(p) # {}}
       /\ \A p \in DOMAIN returned.map :
            \E i \in ResolvingTo(p) : returned.map[p] = BaseOf(i)
  /\ SecondRunReturned =>
       /\ DOMAIN returned.map = DOMAIN firstRunMap
       /\ \A p \in DOMAIN returned.map :
            (\A i, j \in ResolvingTo(p) : BaseOf(i) = BaseOf(j))
              => returned.map[p] = firstRunMap[p]

\* after the second run: two requests with different ids resolve to one page
\* and their sanitized ids are the same, and the map is that of the first run
C19_Witness ==
  /\ SecondRunReturned
  /\ \E p \in DOMAIN returned.map :
       /\ \E i, j \in ResolvingTo(p) :
            requested[i].manifestId # requested[j].manifestId
       /\ \A i, j \in ResolvingTo(p) : BaseOf(i) = BaseOf(j)
       /\ returned.map[p] = firstRunMap[p]
  /\ Cardinality(DOMAIN returned.map) > 1

\* ----------------------------------------- claims on the artifact paths
\* the artifact of request i was written in this run
Written(i) == i \in Tasks /\ task[i].result = "artifact" /\ Finished(i)
SameRequestKey(i, j) ==
  /\ manifests[i].pluginName = manifests[j].pluginName
  /\ manifests[i].manifestId = manifests[j].manifestId

\* C20 as stated: two requests with different (pluginName, manifestId) pairs
\* are never written to the same artifact path, on either platform.
C20_NoCollision ==
  \A i, j \in Tasks :
    Written(i) /\ Written(j) /\ ~SameRequestKey(i, j)
      => ArtifactPath(i) # ArtifactPath(j)

HasSeparator(str) == \E k \in 1..Len(str) : str[k] \in Separators
\* neither the plugin name nor the file name base adds a directory level
Plain(i) ==
  /\ manifests[i].pluginName # <<>>
  /\ ~HasSeparator(manifests[i].pluginName)
  /\ ~HasSeparator(fileNameBase(manifests[i].manifestId))

\* C20 amended: two requests are written to different artifact paths when
\* their plugin names and their file name bases (the manifest ids, sanitized
\* on win32) hold no path separator and the plugin names or the file name
\* bases differ; on win32 two requests of one plugin whose ids are the same
\* after sanitization are written to one path.
C20_PlainKeysDoNotCollide ==
  \A i, j \in Tasks :
    Written(i) /\ Written(j) =>
      /\ ( /\ Plain(i) /\ Plain(j)
           /\ \/ manifests[i].pluginName # manifests[j].pluginName
              \/ fileNameBase(manifests[i].manifestId)
                   # fileNameBase(manifests[j].manifestId) )
           => ArtifactPath(i) # ArtifactPath(j)
      /\ ( /\ win32
           /\ manifests[i].pluginName = manifests[j].pluginName
           /\ ReplaceSpecialChars(manifests[i].manifestId)
                = ReplaceSpecialChars(manifests[j].manifestId) )
           => ArtifactPath(i) = ArtifactPath(j)

\* win32: two plugins wrote the artifact of one manifest id, sanitized, to
\* two paths
C20_Witness ==
  /\ win32
  /\ \E i, j \in Tasks :
       /\ Written(i) /\ Written(j)
       /\ Plain(i) /\ Plain(j)
       /\ manifests[i].pluginName # manifests[j].pluginName
       /\ manifests[i].manifestId = <<"a", ":", "b">>
       /\ manifests[j].manifestId = <<"a", ":", "b">>
       /\ ArtifactPath(i) # ArtifactPath(j)
       /\ Cardinality(DOMAIN files) = 2

====
